---- MODULE Spec2Model ----
(***************************************************************************)
(* Stepwise dosed integration of the PK/PD tumor-growth-inhibition model.  *)
(*                                                                         *)
(* Two script families are modelled:                                       *)
(*   "fixed"  : 10_C2.py, 10_C4.py, Simulations/01_C2.py                   *)
(*              (np.arange schedule, loop over t_eval, records step start) *)
(*   "cyclic" : Simulations/10_C16.py, Simulations/1_C17 copy.py           *)
(*              (28 ON / 14 OFF schedule, loop over t_eval[1:], records    *)
(*               step end)                                                 *)
(*                                                                         *)
(* Quantities are fixed-point integers:                                    *)
(*   time      : ticks of 0.05 day (dt_step = 0.1 day = 2 ticks)           *)
(*   amounts   : micrograms (dose 20 mg = 20000)                           *)
(*   TS        : 1e-6 cm   (TS0 = 0.1 cm = 100000)                         *)
(*   rates     : 1e-4 per day                                              *)
(*   exposure  : ng/L (1e-6 mg/L)                                          *)
(* The adaptive RK45 window integration is abstracted to one explicit      *)
(* step of the right-hand side over the window; floating-point rounding    *)
(* is not modelled (all comparisons are exact on the tick grid).           *)
(***************************************************************************)
EXTENDS Integers, Sequences, FiniteSets, TLC

VARIABLES
    variant,             \* which script family runs
    dose,                \* dose
    treatment_duration,  \* treatment_duration
    dose_interval,       \* dose_interval (fixed family only)
    sim_duration,        \* sim_duration
    dt_step,             \* dt_step
    TS0,                 \* TS0
    dose_times,          \* dose_times
    t_eval,              \* t_eval
    t,                   \* cyclic: schedule cursor t; fixed: loop variable t
    t_current,           \* cyclic: t_current
    t_next,              \* cyclic: loop variable t_next
    k,                   \* number of loop iterations started (iterator position)
    y_current,           \* <<A_gut, Ac, Ap, TS, timeSinceTrtStart>>
    dose_index,          \* dose_index
    dose_active,         \* dose_active
    TS_list,             \* TS_list
    EXPOSURE_list,       \* EXPOSURE_list
    t_list,              \* t_list
    pc,                  \* position in the script
    faults,              \* windows in which the solver may still fail
    failed,              \* history: has a window's integration failed
    given                \* history: step-start times at which a bolus was added

vars == <<variant, dose, treatment_duration, dose_interval, sim_duration, dt_step,
          TS0, dose_times, t_eval, t, t_current, t_next, k, y_current, dose_index,
          dose_active, TS_list, EXPOSURE_list, t_list, pc, faults, failed, given>>

params == <<variant, dose, treatment_duration, dose_interval, sim_duration, dt_step, TS0>>

-----------------------------------------------------------------------------
(* Units and program constants *)

TicksPerDay == 20        \* one day ("Unita: giorni") in ticks of 0.05 day
DtStep == 2              \* dt_step = 0.1
Slack == 2               \* the 0.1 in np.arange(0, treatment_duration+0.1, ...)
Atol == 10               \* atol=0.5 of np.isclose
RtolInv == 100000        \* default rtol=1e-5 of np.isclose, as 1/rtol
OnDays == 28             \* range(28)
CycleDays == 42          \* t += 42
R == 10000               \* fixed-point scale of rates and exponentials

ka == 30240              \* ka = 3.024
CL == 8184000            \* CL = 818.4
V1 == 2700               \* V1 = 2700
V2 == 774                \* V2 = 774
Q == 165120              \* Q = 16.512
kge == 10                \* kge = 0.001
kkill == 1000            \* kkill = 0.1
lambda_res == 20         \* lambda_res = 0.002
TSFloor == 80000         \* TS < 0.08
TSDecay == 1000          \* the 0.1 in exp(-0.1*TS): 0.1 * TS[1e-6 cm] in 1e-4 units is TS / 1000
Mega == 1000000

\* positions in the state vector y = [A_gut, Ac, Ap, TS, timeSinceTrtStart]
iGut == 1
iAc == 2
iAp == 3
iTS == 4
iClk == 5

-----------------------------------------------------------------------------
(* Arithmetic helpers *)

Abs(x) == IF x < 0 THEN -x ELSE x

Max(a, b) == IF a >= b THEN a ELSE b

\* ceil(a / b) for b # 0
CeilDiv(a, b) == IF b > 0 THEN -((-a) \div b) ELSE -(a \div (-b))

\* floor(a * num / den) for a >= 0, num >= 0, den > 0, without overflowing
MulDiv(a, num, den) == (a \div den) * num + ((a % den) * num) \div den

\* np.arange(0, stop, step) for step # 0: 0, step, 2*step, ... ; ceil(stop/step) entries
Arange(stop, step) ==
    LET n == Max(0, CeilDiv(stop, step))
    IN  [i \in 1..n |-> (i - 1) * step]

-----------------------------------------------------------------------------
(* Dose schedules and the time grid *)

\* mutant: the stop is a whole interval past the duration
FixedDoseTimesStep(D, I) == Arange(D + I, I)

\* fixed family: dose_times = np.arange(0, treatment_duration+0.1, dose_interval)
FixedDoseTimes(D, I) == Arange(D + Slack, I)

\* mutant: `t + d <= treatment_duration`
BlockDosesInclusive(t0, D) ==
    LET block == [d \in 1..OnDays |-> t0 + (d - 1) * TicksPerDay]
        keep(x) == x <= D
    IN  SelectSeq(block, keep)

\* cyclic family, one pass of the while body: the doses of the block starting at t0
BlockDoses(t0, D) ==
    LET block == [d \in 1..OnDays |-> t0 + (d - 1) * TicksPerDay]
        keep(x) == x < D
    IN  SelectSeq(block, keep)

\* mutant: `np.arange(0, sim_duration, dt_step)`
TEvalShort(S, dt) == Arange(S, dt)

\* t_eval = np.arange(0, sim_duration+dt_step, dt_step)
TEval(S, dt) == Arange(S + dt, dt)

-----------------------------------------------------------------------------
(* Right-hand side of the ODE system *)

\* R * exp(-x / R) for x >= 0, by the rational approximant 1 / (1 + x + x^2/2)
ExpNeg(x) == (R * R) \div (R + x + (x * x) \div (2 * R))

\* EXPOSURE = Ac / V1, in ng/L
Exposure(Ac) == (Ac * 1000) \div V1

\* TS > 1e12 (cm), on TS in 1e-6 cm
AboveCeiling(TS) ==
    LET cm == TS \div Mega
        q == cm \div Mega
    IN  q > Mega \/ (q = Mega /\ (cm % Mega > 0 \/ TS % Mega > 0))

\* K = kkill * EXPOSURE * exp(-lambda_res * timeSinceTrtStart) * exp(-0.1*TS)
\*     if dose_active else 0.0          (in 1e-6 per day)
KillCoefficient(y, active) ==
    IF active
    THEN MulDiv(MulDiv(MulDiv(Exposure(y[iAc]), kkill, R),
                       ExpNeg((lambda_res * y[iClk]) \div TicksPerDay), R),
                ExpNeg(y[iTS] \div TSDecay), R)
    ELSE 0

\* K * TS, per day
KillTerm(y, active) == MulDiv(y[iTS], KillCoefficient(y, active), 1000) \div 1000

\* mutant: no `elif TS < 0.08` branch, the growth term applies below the floor too
TumorDerivativeNoFloor(y, active) ==
    IF AboveCeiling(y[iTS]) THEN 0
    ELSE MulDiv(y[iTS], kge, R) - KillTerm(y, active)

\* dTS by regime
TumorDerivative(y, active) ==
    IF AboveCeiling(y[iTS]) THEN 0
    ELSE IF y[iTS] < TSFloor THEN -KillTerm(y, active)
    ELSE MulDiv(y[iTS], kge, R) - KillTerm(y, active)

\* mutant: the clock runs whatever the flag
ClockDerivativeAlways(active) == TicksPerDay

\* dtimeSinceTrtStart = 1.0 if dose_active else 0.0   (ticks per day)
ClockDerivative(active) == IF active THEN TicksPerDay ELSE 0

\* tgi_model(t, y, dose_active): derivatives per day of <<A_gut, Ac, Ap, TS, clock>>
tgi_model(y, active) ==
    LET k12 == Q \div V1
        k21 == Q \div V2
        dA_gut == -MulDiv(y[iGut], ka, R)
        dAc == MulDiv(y[iGut], ka, R) - MulDiv(y[iAc], k12, R)
               - MulDiv(y[iAc], CL \div V1, R) + MulDiv(y[iAp], k21, R)
        dAp == MulDiv(y[iAc], k12, R) - MulDiv(y[iAp], k21, R)
        dtimeSinceTrtStart == ClockDerivative(active)
    IN  <<dA_gut, dAc, dAp, TumorDerivative(y, active), dtimeSinceTrtStart>>

\* the state at the end of a window of h ticks started in y (one explicit step)
SolveWindow(y, active, h) ==
    LET d == tgi_model(y, active)
    IN  [i \in 1..5 |-> y[i] + (d[i] * h) \div TicksPerDay]

\* sol.y as the sequence of its columns.  The scripts never read sol.status or
\* sol.success; what sol.y holds after a failed integration is the library's choice:
\* no column, the window's start state, or a state part-way through the window.
SolOutcomes == {"ok", "empty", "stale", "partial"}

SolY(y, active, h, outcome) ==
    CASE outcome = "ok" -> <<SolveWindow(y, active, h)>>
      [] outcome = "empty" -> <<>>
      [] outcome = "stale" -> <<y>>
      [] outcome = "partial" -> <<SolveWindow(y, active, h \div 2)>>

-----------------------------------------------------------------------------
(* Driver predicates *)

\* abs(t - dose_times[dose_index]) < 1e-6
WithinTol(x) == Abs(x) < TicksPerDay /\ Abs(x) * Mega < TicksPerDay

\* mutant: any scheduled time matches, `np.any(np.abs(t - dose_times) < 1e-6)`
DoseDueAny(now, dts, idx) == \E i \in 1..Len(dts) : WithinTol(now - dts[i])

\* mutant: `dose_index < len(dose_times) - 1`
DoseDueSkipLast(now, dts, idx) == idx + 1 < Len(dts) /\ WithinTol(now - dts[idx + 1])

\* dose_index < len(dose_times) and abs(t - dose_times[dose_index]) < 1e-6
DoseDue(now, dts, idx) == idx < Len(dts) /\ WithinTol(now - dts[idx + 1])

\* mutant: `A_gut = dose`
BolusAssign(y, amount) == [y EXCEPT ![iGut] = amount]

\* A_gut += dose   /   y_current[0] += dose
Bolus(y, amount) == [y EXCEPT ![iGut] = @ + amount]

\* dose_active = t <= treatment_duration
DoseActiveFixed(now, D) == now <= D

\* mutant: `atol=0.5` left out (the default atol = 1e-8 is below one tick)
IsCloseDefaultAtol(a, b) == RtolInv * Abs(a - b) <= Abs(b)

\* np.isclose(a, b, atol=0.5): |a - b| <= atol + rtol * |b|
IsClose(a, b) == RtolInv * Abs(a - b) <= RtolInv * Atol + Abs(b)

\* dose_active = np.any(np.isclose(t_current, dose_times, atol=0.5))
DoseActiveCyclic(now, dts) == \E i \in 1..Len(dts) : IsClose(now, dts[i])

\* the step's start time
StepStart == IF variant = "fixed" THEN t ELSE t_current

\* the time a step records: t_list.append(t)  /  t_list.append(t_current)
StepStamp == IF variant = "fixed" THEN t ELSE t_current

\* the window handed to solve_ivp: [0, dt_step]  /  [t_current, t_next]
WindowLength == IF variant = "fixed" THEN dt_step ELSE t_next - t_current

-----------------------------------------------------------------------------
(* The script, statement by statement *)

InitFrom(C, F) ==
    /\ \E c \in C :
         /\ variant = c.variant
         /\ dose = c.dose
         /\ treatment_duration = c.treatment_duration
         /\ dose_interval = c.dose_interval
         /\ sim_duration = c.sim_duration
         /\ dt_step = c.dt_step
         /\ TS0 = c.TS0
    /\ faults \in F
    /\ dose_times = <<>>
    /\ t_eval = <<>>
    /\ t = 0
    /\ t_current = 0
    /\ t_next = 0
    /\ k = 0
    /\ y_current = <<0, 0, 0, TS0, 0>>
    /\ dose_index = 0
    /\ dose_active = FALSE
    /\ TS_list = <<>>
    /\ EXPOSURE_list = <<>>
    /\ t_list = <<>>
    /\ pc = "build"
    /\ failed = FALSE
    /\ given = <<>>

\* fixed family: dose_times = np.arange(...); a zero step raises
BuildFixed ==
    /\ pc = "build"
    /\ variant = "fixed"
    /\ IF dose_interval = 0
       THEN pc' = "crashed" /\ UNCHANGED dose_times
       ELSE /\ dose_times' = FixedDoseTimes(treatment_duration, dose_interval)
            /\ pc' = "t_eval"
    /\ UNCHANGED <<params, t_eval, t, t_current, t_next, k, y_current, dose_index,
                   dose_active, TS_list, EXPOSURE_list, t_list, faults, failed, given>>

\* cyclic family: dose_times = [] ; t = 0
BuildCyclic ==
    /\ pc = "build"
    /\ variant = "cyclic"
    /\ dose_times' = <<>>
    /\ t' = 0
    /\ pc' = "while"
    /\ UNCHANGED <<params, t_eval, t_current, t_next, k, y_current, dose_index,
                   dose_active, TS_list, EXPOSURE_list, t_list, faults, failed, given>>

\* cyclic family: one evaluation of `while t < treatment_duration` and its body
CyclicBlock ==
    /\ pc = "while"
    /\ IF t < treatment_duration
       THEN /\ dose_times' = dose_times \o BlockDoses(t, treatment_duration)
            /\ t' = t + CycleDays * TicksPerDay
            /\ pc' = "while"
       ELSE /\ pc' = "t_eval"
            /\ UNCHANGED <<dose_times, t>>
    /\ UNCHANGED <<params, t_eval, t_current, t_next, k, y_current, dose_index,
                   dose_active, TS_list, EXPOSURE_list, t_list, faults, failed, given>>

\* t_eval = np.arange(0, sim_duration+dt_step, dt_step) and the initial state
MakeTEval ==
    /\ pc = "t_eval"
    /\ IF dt_step = 0
       THEN /\ pc' = "crashed"
            /\ UNCHANGED <<t_eval, y_current, dose_index, t_current, TS_list,
                           EXPOSURE_list, t_list>>
       ELSE /\ t_eval' = TEval(sim_duration, dt_step)
            /\ y_current' = <<0, 0, 0, TS0, 0>>
            /\ TS_list' = <<>>
            /\ EXPOSURE_list' = <<>>
            /\ t_list' = <<>>
            /\ t_current' = 0
            /\ dose_index' = 0
            /\ pc' = "loop"
    /\ UNCHANGED <<params, dose_times, t, t_next, k, dose_active, faults, failed, given>>

\* the for statement: `for t in t_eval`  /  `for t_next in t_eval[1:]`
LoopHead ==
    /\ pc = "loop"
    /\ IF variant = "fixed"
       THEN IF k < Len(t_eval)
            THEN t' = t_eval[k + 1] /\ k' = k + 1 /\ pc' = "dose" /\ UNCHANGED t_next
            ELSE pc' = "done" /\ UNCHANGED <<t, k, t_next>>
       ELSE IF k + 1 < Len(t_eval)
            THEN t_next' = t_eval[k + 2] /\ k' = k + 1 /\ pc' = "dose" /\ UNCHANGED t
            ELSE pc' = "done" /\ UNCHANGED <<t, k, t_next>>
    /\ UNCHANGED <<params, dose_times, t_eval, t_current, y_current, dose_index,
                   dose_active, TS_list, EXPOSURE_list, t_list, faults, failed, given>>

\* the dose check
DoseCheck ==
    /\ pc = "dose"
    /\ IF DoseDue(StepStart, dose_times, dose_index)
       THEN /\ y_current' = Bolus(y_current, dose)
            /\ dose_index' = dose_index + 1
            /\ given' = Append(given, StepStart)
       ELSE UNCHANGED <<y_current, dose_index, given>>
    /\ pc' = "active"
    /\ UNCHANGED <<params, dose_times, t_eval, t, t_current, t_next, k, dose_active,
                   TS_list, EXPOSURE_list, t_list, faults, failed>>

\* dose_active = ...
SetActive ==
    /\ pc = "active"
    /\ dose_active' = IF variant = "fixed"
                      THEN DoseActiveFixed(t, treatment_duration)
                      ELSE DoseActiveCyclic(t_current, dose_times)
    /\ pc' = "solve"
    /\ UNCHANGED <<params, dose_times, t_eval, t, t_current, t_next, k, y_current,
                   dose_index, TS_list, EXPOSURE_list, t_list, faults, failed, given>>

\* sol = solve_ivp(...) and the extraction of the final state.
\* fixed:  A_gut, Ac, Ap, TS, timeSinceTrtStart = sol.y[:, -1]   (raises on no column)
\* cyclic: y_current = sol.y[:, -1].tolist()  or  [yy[-1] for yy in sol.y] ;
\*         t_current = t_next
Solve ==
    /\ pc = "solve"
    /\ \E outcome \in (IF faults > 0 THEN SolOutcomes ELSE {"ok"}) :
         LET sol_y == SolY(y_current, dose_active, WindowLength, outcome)
         IN  /\ faults' = IF outcome = "ok" THEN faults ELSE faults - 1
             /\ failed' = (failed \/ outcome # "ok")
             /\ IF variant = "fixed"
                THEN IF sol_y = <<>>
                     THEN pc' = "crashed" /\ UNCHANGED <<y_current, t_current>>
                     ELSE /\ y_current' = sol_y[Len(sol_y)]
                          /\ pc' = "record"
                          /\ UNCHANGED t_current
                ELSE /\ y_current' = IF sol_y = <<>> THEN <<>> ELSE sol_y[Len(sol_y)]
                     /\ t_current' = t_next
                     /\ pc' = "record"
    /\ UNCHANGED <<params, dose_times, t_eval, t, t_next, k, dose_index, dose_active,
                   TS_list, EXPOSURE_list, t_list, given>>

\* the three appends (cyclic: after unpacking y_current, which raises on an empty list)
Record ==
    /\ pc = "record"
    /\ IF Len(y_current) # 5
       THEN pc' = "crashed" /\ UNCHANGED <<TS_list, EXPOSURE_list, t_list>>
       ELSE /\ TS_list' = Append(TS_list, y_current[iTS])
            /\ EXPOSURE_list' = Append(EXPOSURE_list, Exposure(y_current[iAc]))
            /\ t_list' = Append(t_list, StepStamp)
            /\ pc' = "loop"
    /\ UNCHANGED <<params, dose_times, t_eval, t, t_current, t_next, k, y_current,
                   dose_index, dose_active, faults, failed, given>>

Next ==
    \/ BuildFixed
    \/ BuildCyclic
    \/ CyclicBlock
    \/ MakeTEval
    \/ LoopHead
    \/ DoseCheck
    \/ SetActive
    \/ Solve
    \/ Record

-----------------------------------------------------------------------------
(* Parameter sets and specifications *)

Cfg(v, a, D, I, S, dt, ts) ==
    [variant |-> v, dose |-> a, treatment_duration |-> D, dose_interval |-> I,
     sim_duration |-> S, dt_step |-> dt, TS0 |-> ts]

MaxFaults == 1           \* failing windows per run
SchedMaxDuration == 12   \* fixed schedules: treatment_duration up to 0.6 day
SchedMaxInterval == 5    \* fixed schedules: dose_interval up to 0.25 day
SchedMaxDays == 90       \* cyclic schedules: treatment_duration up to 90 days

\* runs of the fixed family: 20 or 50 mg; every 0.1, 0.15, 0.2 or 2 days;
\* for 0, 0.25, 0.4 or 2 days; simulated for 1 or 3 days
FixedConfigs ==
    { Cfg("fixed", a, D, I, S, DtStep, ts) :
        a \in {20000, 50000}, D \in {0, 5, 8, 40}, I \in {2, 3, 4, 40},
        S \in {20, 60}, ts \in {70000, 100000} }

\* runs of the cyclic family: 100 mg; treatment for 0, 2.5, 30, 50 or 84 days;
\* simulated for 3 or 72 days
CyclicConfigs ==
    { Cfg("cyclic", 100000, D, 0, S, DtStep, 100000) :
        D \in {0, 50, 600, 1000, 1680}, S \in {60, 1440} }

\* schedule construction over a wide range of regimes, with a zero horizon
SchedConfigs ==
    { Cfg("fixed", 20000, D, I, 0, DtStep, 100000) :
        D \in 0..SchedMaxDuration, I \in 1..SchedMaxInterval }
    \cup
    { Cfg("cyclic", 100000, d * TicksPerDay + o, 0, 0, DtStep, 100000) :
        d \in 0..SchedMaxDays, o \in {0, 10} }

\* short runs in which windows may fail to integrate
FailConfigs ==
    { Cfg("fixed", 20000, D, 4, 8, DtStep, 100000) : D \in {4, 40} }
    \cup
    { Cfg("cyclic", 100000, D, 0, 8, DtStep, 100000) : D \in {0, 40} }

\* runs whose interval, step size or horizon may be zero or negative
AnyConfigs ==
    { Cfg("fixed", 20000, 4, I, S, dt, 100000) :
        I \in {-2, 0, 2}, S \in {-20, 0, 20}, dt \in {-2, 0, 2} }
    \cup
    { Cfg("cyclic", 100000, 60, 0, S, dt, 100000) :
        S \in {-20, 0, 20}, dt \in {-2, 0, 2} }

Init == InitFrom(FixedConfigs \cup CyclicConfigs, {0})

InitSched == InitFrom(SchedConfigs, {0})

InitFail == InitFrom(FailConfigs, 0..MaxFaults)

InitAny == InitFrom(AnyConfigs, {0})

Spec == Init /\ [][Next]_vars

SpecSched == InitSched /\ [][Next]_vars

SpecFail == InitFail /\ [][Next]_vars

SpecAny == InitAny /\ [][Next]_vars

-----------------------------------------------------------------------------
(* The two driver loops as functions of a run's schedule, predicate and grid *)

\* dose_active of a step starting at `now`, by the run's own predicate
ActiveAt(now) ==
    IF variant = "fixed"
    THEN DoseActiveFixed(now, treatment_duration)
    ELSE DoseActiveCyclic(now, dose_times)

\* iterations of `for t in t_eval`  /  `for t_next in t_eval[1:]`
LoopSteps(style) == IF style = "fixed" THEN Len(t_eval) ELSE Max(0, Len(t_eval) - 1)

\* iteration i of the loop of family `style`, from the loop state s:
\* dose check, flag, solve_ivp over the window, the three appends
LoopStep(style, i, s) ==
    LET now == t_eval[i]
        due == DoseDue(now, dose_times, s.dose_index)
        y0 == IF due THEN Bolus(s.y_current, dose) ELSE s.y_current
        h == IF style = "fixed" THEN dt_step ELSE t_eval[i + 1] - t_eval[i]
        w == SolveWindow(y0, ActiveAt(now), h)
        y1 == <<w[iGut], w[iAc], w[iAp], w[iTS], w[iClk]>>
        stamp == IF style = "fixed" THEN now ELSE t_eval[i + 1]
    IN  [y_current |-> y1,
         dose_index |-> IF due THEN s.dose_index + 1 ELSE s.dose_index,
         TS_list |-> Append(s.TS_list, y1[iTS]),
         EXPOSURE_list |-> Append(s.EXPOSURE_list, Exposure(y1[iAc])),
         t_list |-> Append(s.t_list, stamp)]

\* iterations lo..hi in order, from the loop state s
RECURSIVE LoopRange(_, _, _, _)
LoopRange(style, lo, hi, s) ==
    IF lo > hi THEN s
    ELSE IF lo = hi THEN LoopStep(style, lo, s)
    ELSE LET mid == (lo + hi) \div 2
             first == LoopRange(style, lo, mid, s)
         \* the cursor test evaluates the first half before the second half starts
         IN  IF first.dose_index >= 0 THEN LoopRange(style, mid + 1, hi, first) ELSE first

\* the whole loop of family `style` from the initial state
LoopRun(style) ==
    LoopRange(style, 1, LoopSteps(style), [y_current |-> <<0, 0, 0, TS0, 0>>, dose_index |-> 0,
               TS_list |-> <<>>, EXPOSURE_list |-> <<>>, t_list |-> <<>>])

\* the loop of the run's own family is the run
LoopRunIsTheRun ==
    pc = "done" =>
        LET r == LoopRun(variant)
        IN  /\ r.t_list = t_list
            /\ r.TS_list = TS_list
            /\ r.EXPOSURE_list = EXPOSURE_list
            /\ r.y_current = y_current
            /\ r.dose_index = dose_index

-----------------------------------------------------------------------------
(* Properties *)

StrictlyIncreasing(seq) == \A i \in 1..(Len(seq) - 1) : seq[i] < seq[i + 1]

Range(seq) == { seq[i] : i \in 1..Len(seq) }

\* the schedule has been constructed
ScheduleBuilt == pc \notin {"build", "while", "crashed"}

\* C1: for every interval I > 0 and duration D >= 0 the fixed-interval schedule has
\* exactly floor(D/I) + 1 entries, starts at 0, is strictly increasing and lies in [0, D].
C1_FixedScheduleShape ==
    (variant = "fixed" /\ ScheduleBuilt /\ dose_interval > 0 /\ treatment_duration >= 0)
    => /\ Len(dose_times) = treatment_duration \div dose_interval + 1
       /\ dose_times[1] = 0
       /\ StrictlyIncreasing(dose_times)
       /\ \A i \in 1..Len(dose_times) :
            0 <= dose_times[i] /\ dose_times[i] <= treatment_duration

\* the days d with 0 <= d < D and d mod 42 < 28, in ticks
CyclicDoseDays(D) ==
    { d * TicksPerDay : d \in { e \in 0..(D \div TicksPerDay + 1) :
                                  e * TicksPerDay < D /\ e % CycleDays < OnDays } }

\* C2: the cyclic schedule holds exactly the whole days t with 0 <= t < D and
\* t mod 42 < 28, each once and in order; for D = 84 days that is 56 doses, on days
\* 0..27 and 42..69, none on days 28..41 or 70..83.
C2_CyclicSchedule ==
    (variant = "cyclic" /\ ScheduleBuilt)
    => /\ StrictlyIncreasing(dose_times)
       /\ Range(dose_times) = CyclicDoseDays(treatment_duration)
       /\ treatment_duration = 84 * TicksPerDay
          => /\ Len(dose_times) = 56
             /\ Range(dose_times) =
                  { d * TicksPerDay : d \in (0..27) \cup (42..69) }
             /\ \A d \in (28..41) \cup (70..83) : d * TicksPerDay \notin Range(dose_times)

C2_Witness ==
    /\ variant = "cyclic"
    /\ pc = "done"
    /\ treatment_duration = 84 * TicksPerDay
    /\ Len(dose_times) = 56

BolusGiven == Len(given') = Len(given) + 1

\* C4: a bolus of amount `dose` turns the gut amount G into exactly G + dose, leaves the
\* central and peripheral amounts, the tumor diameter, the treatment clock and the
\* recorded results unchanged, and that state is the one the integrator starts from.
C4_BolusExact ==
    [][ /\ BolusGiven =>
            /\ y_current'[iGut] = y_current[iGut] + dose
            /\ \A i \in {iAc, iAp, iTS, iClk} : y_current'[i] = y_current[i]
            /\ UNCHANGED <<TS_list, EXPOSURE_list, t_list>>
            /\ pc' = "active"
        /\ pc = "active" => (pc' = "solve" /\ y_current' = y_current)
      ]_vars

C4_Witness ==
    /\ pc = "solve"
    /\ Len(given) >= 2
    /\ given[Len(given)] = StepStart
    /\ y_current[iGut] > dose
    /\ y_current[iAc] > 0

\* the treatment clock
Clock == y_current[iClk]

\* every scheduled dose lies strictly before x
PastLastDose(x) == \A i \in 1..Len(dose_times) : dose_times[i] < x

\* C5: the treatment clock is unchanged over a step whose flag is false and grows by
\* exactly dt_step over an active step; once a step after the last scheduled dose is
\* inactive, every later step is inactive too, so the clock stays constant to the end.
C5_TreatmentClock ==
    [][ /\ pc = "solve" => Clock' = Clock + (IF dose_active THEN dt_step ELSE 0)
        /\ pc \in {"loop", "dose", "active", "record"} => Clock' = Clock
        /\ (pc = "active" /\ k >= 2 /\ ~dose_active /\ PastLastDose(t_eval[k - 1]))
           => ~dose_active'
      ]_vars

C5_Witness ==
    /\ pc = "done"
    /\ Len(given) > 0
    /\ ~dose_active
    /\ PastLastDose(StepStart)
    /\ Clock > 0
    /\ Clock + dt_step < sim_duration

\* the number of steps of a run, from the horizon and the step size alone
NSteps ==
    IF variant = "fixed"
    THEN CeilDiv(sim_duration, dt_step) + 1
    ELSE CeilDiv(sim_duration, dt_step)

\* the loop is running or has ended
InLoop == pc \in {"loop", "dose", "active", "solve", "record", "done"}

\* C6: the three result sequences always have equal length; a step appends exactly one
\* entry to each and leaves earlier entries alone; recorded times grow by dt_step; the
\* loop goes on to the horizon after the schedule is exhausted, so the final length is
\* a function of sim_duration and dt_step only.
C6_ResultSequences ==
    /\ [](/\ Len(TS_list) = Len(t_list)
          /\ Len(EXPOSURE_list) = Len(t_list)
          /\ \A i \in 1..(Len(t_list) - 1) : t_list[i + 1] = t_list[i] + dt_step
          /\ pc = "done" => /\ Len(t_list) = NSteps
                            /\ t_list[Len(t_list)] >= sim_duration)
    /\ [][ /\ pc = "record" =>
               /\ Len(t_list') = Len(t_list) + 1
               /\ SubSeq(t_list', 1, Len(t_list)) = t_list
               /\ SubSeq(TS_list', 1, Len(TS_list)) = TS_list
               /\ SubSeq(EXPOSURE_list', 1, Len(EXPOSURE_list)) = EXPOSURE_list
           /\ pc \in {"loop", "dose", "active", "solve"} =>
               UNCHANGED <<t_list, TS_list, EXPOSURE_list>>
           /\ (pc = "loop" /\ Len(t_list) < NSteps) => pc' = "dose"
         ]_vars

C6_Witness ==
    /\ pc = "done"
    /\ Len(dose_times) > 0
    /\ dose_index = Len(dose_times)
    /\ Len(t_list) > Len(dose_times) + 5
    /\ t_list[Len(t_list)] > dose_times[Len(dose_times)] + dt_step

InvalidParameter ==
    \/ variant = "fixed" /\ dose_interval <= 0
    \/ dt_step <= 0
    \/ sim_duration <= 0

\* C8: with a dose interval, step size or horizon <= 0 the run fails at construction:
\* it never integrates a window and never completes.
C8_FailFast == InvalidParameter => pc \notin {"solve", "record", "done"}

\* the start times of the steps of the run
StepStarts ==
    { t_eval[j] : j \in 1..(IF variant = "fixed" THEN Len(t_eval) ELSE Len(t_eval) - 1) }

AllOnGrid == LET starts == StepStarts IN Range(dose_times) \subseteq starts

\* C9: when every dose time is a step-start time, each scheduled dose is given exactly
\* once, in the step starting at its time and before that step is integrated; a step
\* gives at most one dose; the boluses of a run are the schedule, none after its end.
C9_DoseAdministration ==
    /\ []((InLoop /\ AllOnGrid) =>
            /\ given = SubSeq(dose_times, 1, dose_index)
            /\ Len(given) <= k
            /\ pc \in {"active", "solve"} =>
                 \A i \in 1..Len(dose_times) : dose_times[i] <= StepStart => i <= dose_index
            /\ pc = "done" => given = dose_times)
    /\ [][ /\ BolusGiven => (pc = "dose" /\ StepStart = dose_times[dose_index + 1])
           /\ (InLoop /\ ~BolusGiven) => given' = given
           /\ (InLoop /\ dose_index = Len(dose_times)) => given' = given
         ]_vars

C9_Witness ==
    /\ pc = "done"
    /\ AllOnGrid
    /\ Len(dose_times) >= 3
    /\ given = dose_times

\* some scheduled dose lies within half a day of x
NearDose(x) == \E i \in 1..Len(dose_times) : Abs(x - dose_times[i]) <= Atol

\* x lies between half a day before the first and half a day after the last dose of
\* some ON block
InBlockWindow(x) ==
    \E b \in 0..Max(0, treatment_duration \div (CycleDays * TicksPerDay)) :
        LET first == b * CycleDays * TicksPerDay
            block == { d \in Range(dose_times) : first <= d /\ d < first + OnDays * TicksPerDay }
        IN  /\ block # {}
            /\ \E lo \in block : \E hi \in block :
                 /\ \A d \in block : lo <= d /\ d <= hi
                 /\ lo - Atol <= x
                 /\ x <= hi + Atol

\* C10: the flag is set once per step, after the dose check, for the step's start time
\* and is held for the window; fixed family: true iff t <= treatment_duration; cyclic
\* family: true iff some dose time is within 0.5 of t, i.e. iff t lies from half a day
\* before the first to half a day after the last dose of a block.
C10_ActiveFlag ==
    /\ [](pc = "solve" =>
            /\ variant = "fixed" => (dose_active <=> t <= treatment_duration)
            /\ variant = "cyclic" => /\ dose_active <=> NearDose(t_current)
                                     /\ dose_active <=> InBlockWindow(t_current))
    /\ [][ /\ pc = "dose" => pc' = "active"
           /\ dose_active' # dose_active => pc = "active"
         ]_vars

C10_Witness ==
    /\ variant = "cyclic"
    /\ pc = "solve"
    /\ dose_active
    /\ t_current = 27 * TicksPerDay + Atol
    /\ Len(t_list) > 0

OtherFamily == IF variant = "fixed" THEN "cyclic" ELSE "fixed"

\* C11: on the same parameters, schedule, predicate, horizon and step size the loop of
\* the fixed-interval scripts and the loop of the cyclic scripts take the same number
\* of steps and emit the same recorded times, tumor diameters and exposures.
C11_FamiliesAgree ==
    pc = "done" =>
        LET other == LoopRun(OtherFamily)
        IN  /\ Len(t_list) = Len(other.t_list)
            /\ t_list = other.t_list
            /\ TS_list = other.TS_list
            /\ EXPOSURE_list = other.EXPOSURE_list

BelowFloor(y) == Len(y) = 5 /\ y[iTS] < TSFloor

\* the derivative below the floor: -K*TS, never positive, zero without treatment
FloorDerivative ==
    (BelowFloor(y_current) /\ y_current[iAc] >= 0 /\ y_current[iTS] >= 0) =>
        \A active \in BOOLEAN :
            /\ TumorDerivative(y_current, active) = -KillTerm(y_current, active)
            /\ TumorDerivative(y_current, active) <= 0
            /\ ~active => TumorDerivative(y_current, active) = 0

\* C12: kill-only floor.  In every state with TS < 0.08 and a non-negative central
\* amount the tumor derivative is -K*TS <= 0, and 0 when the active flag is false; the
\* amounts and TS are never negative; across every step of the driver a TS below 0.08
\* does not increase, and it is unchanged by the integration of an inactive window.
C12_KillOnlyFloor ==
    /\ [](Len(y_current) = 5 => y_current[iAc] >= 0 /\ y_current[iTS] >= 0)
    /\ []FloorDerivative
    /\ [][ (BelowFloor(y_current) /\ pc # "t_eval") =>
             /\ Len(y_current') = 5
             /\ y_current'[iTS] <= y_current[iTS]
             /\ (pc = "solve" /\ ~dose_active) => y_current'[iTS] = y_current[iTS]
         ]_vars

\* a tumor that started above the floor, was killed to below it during treatment,
\* and then stayed where it was over the last, untreated window
C12_Witness ==
    /\ pc = "done"
    /\ TS0 >= TSFloor
    /\ ~dose_active
    /\ Len(TS_list) > 2
    /\ TS_list[Len(TS_list)] < TSFloor
    /\ TS_list[Len(TS_list)] = TS_list[Len(TS_list) - 1]
    /\ \E i \in 2..Len(TS_list) :
         /\ TS_list[i - 1] < TSFloor
         /\ TS_list[i] < TS_list[i - 1]

\* the next scheduled dose is the start of no step of the run
NextDoseOffGrid ==
    /\ dose_index < Len(dose_times)
    /\ LET starts == StepStarts IN dose_times[dose_index + 1] \notin starts

====
